---------------------------- MODULE Spec2Model ----------------------------
(***************************************************************************)
(* A model of rtl_433_data_collector (src/src/main.rs): the line loop of   *)
(* parse_from_stdin / parse_from_rtl433_process, process_json_line, the    *)
(* derived (de)serialization of RTL433Message and the two custom field     *)
(* decoders deserialize_yes_no and deserialize_timestamp.                  *)
(*                                                                         *)
(* Text is a sequence of one-character strings, so that letter case,       *)
(* digits and separators are what the decoders really look at.  An f64 is  *)
(* a number of hundredths; the inputs are multiples of 0.25, which binary  *)
(* floating point holds exactly.  An instant is the day since 1970-01-01,  *)
(* the second of that day and the nanosecond of that second, so that the   *)
(* instants at the ends of chrono's range stay within the integers of the  *)
(* model checker.                                                          *)
(***************************************************************************)
EXTENDS Integers, Sequences, FiniteSets, TLC

(***************************************************************************)
(* Bounds of the model.                                                    *)
(***************************************************************************)
\* Items (lines or read errors) the line source yields before it closes.
MaxLines == 3
\* Times the wall clock advances during a run.
MaxTicks == 1
\* The wall clock when the program starts (seconds since the epoch).
StartClock == 1793649600

(***************************************************************************)
(* Characters and text.                                                    *)
(***************************************************************************)
Digits == <<"0", "1", "2", "3", "4", "5", "6", "7", "8", "9">>

IsDigit(c) == \E i \in 1..Len(Digits) : Digits[i] = c

DigitVal(c) == (CHOOSE i \in 1..Len(Digits) : Digits[i] = c) - 1

DigitChar(n) == Digits[n + 1]

LowerLetters == <<"a", "e", "f", "l", "n", "o", "r", "s", "t", "u", "y">>

UpperLetters == <<"A", "E", "F", "L", "N", "O", "R", "S", "T", "U", "Y">>

\* char::to_lowercase on the letters the inputs use; every other character
\* is its own lower case.
ToLowerChar(c) ==
    IF \E i \in 1..Len(UpperLetters) : UpperLetters[i] = c
    THEN LowerLetters[CHOOSE i \in 1..Len(UpperLetters) : UpperLetters[i] = c]
    ELSE c

ToUpperChar(c) ==
    IF \E i \in 1..Len(LowerLetters) : LowerLetters[i] = c
    THEN UpperLetters[CHOOSE i \in 1..Len(LowerLetters) : LowerLetters[i] = c]
    ELSE c

ToLower(s) == [i \in 1..Len(s) |-> ToLowerChar(s[i])]

\* Every way of writing the text w in upper and lower case letters.
CaseVariants(w) ==
    { [i \in 1..Len(w) |-> IF up[i] THEN ToUpperChar(w[i]) ELSE w[i]] :
        up \in [1..Len(w) -> BOOLEAN] }

(***************************************************************************)
(* JSON values, as serde_json hands them to a field's Deserialize.         *)
(***************************************************************************)
JNull == [t |-> "null"]

JBool(b) == [t |-> "bool", b |-> b]

JInt(n) == [t |-> "int", n |-> n]

\* A JSON number with a fraction or exponent; h is its value in hundredths.
JFloat(h) == [t |-> "float", h |-> h]

JStr(s) == [t |-> "str", s |-> s]

\* A key the object does not have.
Absent == [t |-> "absent"]

None == [some |-> FALSE]

Some(v) == [some |-> TRUE, v |-> v]

Ok(v) == [ok |-> TRUE, v |-> v]

Err(e) == [ok |-> FALSE, e |-> e]

(***************************************************************************)
(* deserialize_yes_no: Option<String> first, then the literal match.       *)
(***************************************************************************)
YesTokens ==
    { <<"Y", "e", "s">>, <<"y", "e", "s">>, <<"Y", "E", "S">>,
      <<"t", "r", "u", "e">>, <<"T", "R", "U", "E">>, <<"T", "r", "u", "e">>,
      <<"1">> }

NoTokens ==
    { <<"N", "o">>, <<"n", "o">>, <<"N", "O">>,
      <<"f", "a", "l", "s", "e">>, <<"F", "A", "L", "S", "E">>,
      <<"F", "a", "l", "s", "e">>, <<"0">> }

\* A faulty variant: a value of another JSON type taken for a missing one.
OptionString_lenient(j) ==
    CASE j.t = "str" -> Ok(Some(j.s))
      [] OTHER -> Ok(None)

\* Option::<String>::deserialize: null is None, a string is Some, every other
\* JSON type is serde's "invalid type" error.
OptionString(j) ==
    CASE j.t = "null" -> Ok(None)
      [] j.t = "str" -> Ok(Some(j.s))
      [] OTHER -> Err("invalid type")

\* A faulty variant: the match done on the lower-cased text.
deserialize_yes_no_ignoring_case(j) ==
    LET s == OptionString(j)
    IN  IF ~s.ok THEN s
        ELSE IF ~s.v.some THEN Ok(None)
        ELSE IF \E w \in YesTokens : ToLower(w) = ToLower(s.v.v) THEN Ok(Some(TRUE))
        ELSE IF \E w \in NoTokens : ToLower(w) = ToLower(s.v.v) THEN Ok(Some(FALSE))
        ELSE Ok(None)

deserialize_yes_no(j) ==
    LET s == OptionString(j)
    IN  IF ~s.ok THEN s
        ELSE IF ~s.v.some THEN Ok(None)
        ELSE IF s.v.v \in YesTokens THEN Ok(Some(TRUE))
        ELSE IF s.v.v \in NoTokens THEN Ok(Some(FALSE))
        ELSE Ok(None)

(***************************************************************************)
(* serde's own decoders of the other fields.                               *)
(***************************************************************************)
\* A faulty variant: a number with a fraction truncated to an integer.
OptionI64_truncating(j) ==
    CASE j.t = "null" -> Ok(None)
      [] j.t = "int" -> Ok(Some(j.n))
      [] j.t = "float" -> Ok(Some(j.h \div 100))
      [] OTHER -> Err("invalid type")

\* Option<i64>: null is None, an integer is Some; serde_json does not turn a
\* number with a fraction into an integer.
OptionI64(j) ==
    CASE j.t = "null" -> Ok(None)
      [] j.t = "int" -> Ok(Some(j.n))
      [] OTHER -> Err("invalid type")

\* Option<f64>: null is None, any JSON number is Some (an integer widened).
OptionF64(j) ==
    CASE j.t = "null" -> Ok(None)
      [] j.t = "int" -> Ok(Some(j.n * 100))
      [] j.t = "float" -> Ok(Some(j.h))
      [] OTHER -> Err("invalid type")

\* String: only a JSON string decodes.
PlainString(j) ==
    CASE j.t = "str" -> Ok(j.s)
      [] OTHER -> Err("invalid type")

(***************************************************************************)
(* Calendar arithmetic of chrono (proleptic Gregorian, UTC).               *)
(***************************************************************************)
IsLeapYear(y) == (y % 4 = 0 /\ y % 100 # 0) \/ y % 400 = 0

DaysInMonth(y, m) ==
    IF m = 2 THEN (IF IsLeapYear(y) THEN 29 ELSE 28)
    ELSE IF m \in {4, 6, 9, 11} THEN 30 ELSE 31

\* Days from 1970-01-01 to the civil date y-m-d.
DaysFromCivil(y, m, d) ==
    LET yy == IF m <= 2 THEN y - 1 ELSE y
        era == yy \div 400
        yoe == yy - era * 400
        mp == IF m > 2 THEN m - 3 ELSE m + 9
        doy == (153 * mp + 2) \div 5 + d - 1
        doe == yoe * 365 + yoe \div 4 - yoe \div 100 + doy
    IN  era * 146097 + doe - 719468

\* The civil date of the day z days after 1970-01-01.
CivilFromDays(z) ==
    LET zz == z + 719468
        era == zz \div 146097
        doe == zz - era * 146097
        yoe == (doe - doe \div 1460 + doe \div 36524 - doe \div 146096) \div 365
        doy == doe - (365 * yoe + yoe \div 4 - yoe \div 100)
        mp == (5 * doy + 2) \div 153
        d == doy - (153 * mp + 2) \div 5 + 1
        m == IF mp < 10 THEN mp + 3 ELSE mp - 9
        y == yoe + era * 400 + (IF m <= 2 THEN 1 ELSE 0)
    IN  [y |-> y, m |-> m, d |-> d]

\* sod may lie a day before or after days' own day; the result is normalised.
Instant(days, sod, nanos) ==
    [days |-> days + (sod \div 86400), sod |-> sod % 86400, nanos |-> nanos]

\* The instant secs whole seconds after the epoch.
FromSecs(secs) == Instant(0, secs, 0) 

\* DateTime::<Utc>::default(): the Unix epoch.
UnixEpoch == Instant(0, 0, 0)

(***************************************************************************)
(* Reading numbers out of text.                                            *)
(***************************************************************************)
AllDigits(s, i, n) == i + n - 1 <= Len(s) /\ \A k \in i..(i + n - 1) : IsDigit(s[k])

RECURSIVE NumAt(_, _, _)
\* The value of the n digits of s that start at position i.
NumAt(s, i, n) ==
    IF n = 0 THEN 0 ELSE NumAt(s, i, n - 1) * 10 + DigitVal(s[i + n - 1])

RECURSIVE Pow10(_)
Pow10(n) == IF n = 0 THEN 1 ELSE 10 * Pow10(n - 1)

\* "YYYY-MM-DD" sep "HH:MM:SS" in the first 19 characters of s; a second of
\* 60 is chrono's leap second (second 59 and a nanosecond count past 10^9).
DateTimeCore(s, seps) ==
    IF /\ Len(s) >= 19
       /\ AllDigits(s, 1, 4) /\ s[5] = "-" /\ AllDigits(s, 6, 2) /\ s[8] = "-"
       /\ AllDigits(s, 9, 2) /\ s[11] \in seps
       /\ AllDigits(s, 12, 2) /\ s[14] = ":" /\ AllDigits(s, 15, 2) /\ s[17] = ":"
       /\ AllDigits(s, 18, 2)
    THEN LET y == NumAt(s, 1, 4)
             m == NumAt(s, 6, 2)
             d == NumAt(s, 9, 2)
             hh == NumAt(s, 12, 2)
             mi == NumAt(s, 15, 2)
             ss == NumAt(s, 18, 2)
         IN  IF /\ m \in 1..12 /\ d >= 1 /\ d <= DaysInMonth(y, m)
                /\ hh <= 23 /\ mi <= 59 /\ ss <= 60
             THEN Ok(Instant(DaysFromCivil(y, m, d),
                             hh * 3600 + mi * 60 + (IF ss = 60 THEN 59 ELSE ss),
                             IF ss = 60 THEN Pow10(9) ELSE 0))
             ELSE Err("out of range")
    ELSE Err("invalid")

\* A fraction ".d" to ".ddddddddd" at the head of r: its length and nanoseconds.
Fraction(r) ==
    IF Len(r) >= 2 /\ r[1] = "." /\ IsDigit(r[2])
    THEN LET n == CHOOSE k \in 1..9 :
                      /\ AllDigits(r, 2, k)
                      /\ (k = 9 \/ ~AllDigits(r, 2, k + 1))
         IN  [len |-> n + 1, nanos |-> NumAt(r, 2, n) * Pow10(9 - n)]
    ELSE [len |-> 0, nanos |-> 0]

From(s, i) == SubSeq(s, i, Len(s))

\* NaiveDateTime::parse_from_str(s, "%Y-%m-%d %H:%M:%S")
ParsePlain(s) ==
    IF Len(s) = 19 THEN DateTimeCore(s, {" "}) ELSE Err("invalid")

\* NaiveDateTime::parse_from_str(s, "%Y-%m-%d %H:%M:%S%.f")
ParseFractional(s) ==
    LET core == DateTimeCore(s, {" "})
    IN  IF ~core.ok THEN core
        ELSE LET f == Fraction(From(s, 20))
             IN  IF f.len = Len(s) - 19
                 THEN Ok(Instant(core.v.days, core.v.sod, core.v.nanos + f.nanos))
                 ELSE Err("trailing input")

\* "Z", or "+HH:MM" / "-HH:MM": the offset east of UTC in seconds.
UtcOffset(r) ==
    IF r = <<"Z">> \/ r = <<"z">> THEN Ok(0)
    ELSE IF /\ Len(r) = 6 /\ r[1] \in {"+", "-"} /\ AllDigits(r, 2, 2)
            /\ r[4] = ":" /\ AllDigits(r, 5, 2)
            /\ NumAt(r, 2, 2) <= 23 /\ NumAt(r, 5, 2) <= 59
    THEN Ok((IF r[1] = "-" THEN -1 ELSE 1) * (NumAt(r, 2, 2) * 3600 + NumAt(r, 5, 2) * 60))
    ELSE Err("invalid")

\* DateTime::parse_from_rfc3339(s), then with_timezone(&Utc).
ParseRfc3339(s) ==
    LET core == DateTimeCore(s, {"T", "t"})
    IN  IF ~core.ok THEN core
        ELSE LET f == Fraction(From(s, 20))
                 off == UtcOffset(From(s, 20 + f.len))
             IN  IF off.ok
                 THEN Ok(Instant(core.v.days, core.v.sod - off.v,
                                 core.v.nanos + f.nanos))
                 ELSE Err("invalid")

(***************************************************************************)
(* str::parse::<i64> and Utc.timestamp_opt, on decimal digits: the values  *)
(* at the edges of i64 are compared digit by digit.                        *)
(***************************************************************************)
I64MaxDigits ==
    <<"9", "2", "2", "3", "3", "7", "2", "0", "3", "6", "8", "5", "4", "7", "7",
      "5", "8", "0", "7">>

I64MinDigits ==
    <<"9", "2", "2", "3", "3", "7", "2", "0", "3", "6", "8", "5", "4", "7", "7",
      "5", "8", "0", "8">>

\* DateTime::<Utc>::MAX_UTC and MIN_UTC in whole seconds (magnitudes): the
\* last second of the year 262142 and the first of the year -262143.  (Older
\* releases of chrono reach one year further each way; the inputs keep clear
\* of the years in between.)
MaxUtcSecsDigits == <<"8", "2", "1", "0", "2", "6", "6", "8", "7", "6", "7", "9", "9">>

MinUtcSecsDigits == <<"8", "3", "3", "4", "6", "0", "1", "2", "2", "8", "8", "0", "0">>

RECURSIVE StripZeros(_)
StripZeros(d) == IF Len(d) > 1 /\ d[1] = "0" THEN StripZeros(From(d, 2)) ELSE d

RECURSIVE LexLeq(_, _)
LexLeq(a, b) ==
    IF a = <<>> THEN TRUE
    ELSE IF DigitVal(a[1]) # DigitVal(b[1]) THEN DigitVal(a[1]) < DigitVal(b[1])
    ELSE LexLeq(From(a, 2), From(b, 2))

\* a <= b for two digit strings without leading zeros.
DigitsLeq(a, b) == Len(a) < Len(b) \/ (Len(a) = Len(b) /\ LexLeq(a, b))

\* time_str.parse::<i64>(): an optional sign, then digits only, within i64.
ParseI64(s) ==
    LET signed == Len(s) >= 1 /\ s[1] \in {"+", "-"}
        neg == Len(s) >= 1 /\ s[1] = "-"
        body == IF signed THEN From(s, 2) ELSE s
    IN  IF body = <<>> \/ ~AllDigits(body, 1, Len(body)) THEN Err("invalid digit")
        ELSE LET mag == StripZeros(body)
             IN  IF DigitsLeq(mag, IF neg THEN I64MinDigits ELSE I64MaxDigits)
                 THEN Ok([neg |-> neg, mag |-> mag])
                 ELSE Err("overflow")

RECURSIVE DivModDay(_, _)
\* Long division of the digits d by the seconds of a day: [q, r].
DivModDay(d, n) ==
    IF n = 0 THEN [q |-> 0, r |-> 0]
    ELSE LET p == DivModDay(d, n - 1)
             x == p.r * 10 + DigitVal(d[n])
         IN  [q |-> p.q * 10 + (x \div 86400), r |-> x % 86400]

\* Utc.timestamp_opt(n, 0).single(): None outside chrono's range.
TimestampOpt(n) ==
    IF DigitsLeq(n.mag, IF n.neg THEN MinUtcSecsDigits ELSE MaxUtcSecsDigits)
    THEN LET qr == DivModDay(n.mag, Len(n.mag))
         IN  Some(IF n.neg THEN Instant(-qr.q, -qr.r, 0) ELSE Instant(qr.q, qr.r, 0))
    ELSE None

(***************************************************************************)
(* deserialize_timestamp.  now is what Utc::now() returns; the result      *)
(* carries the lines written to standard error on the way.                 *)
(***************************************************************************)
Coerced(inst, warnings) == [ok |-> TRUE, v |-> inst, warn |-> warnings]

UnknownFormat(s) == [kind |-> "unknown_timestamp", text |-> s]

\* A faulty variant: a timestamp outside chrono's range is reported like an
\* unrecognised format.
deserialize_timestamp_warning_on_range(j, now) ==
    LET s == OptionString(j)
    IN  IF ~s.ok THEN [ok |-> FALSE, e |-> s.e, warn |-> <<>>]
        ELSE IF ~s.v.some THEN Coerced(now, <<>>)
        ELSE LET str == s.v.v
             IN  IF ParsePlain(str).ok THEN Coerced(ParsePlain(str).v, <<>>)
                 ELSE IF ParseFractional(str).ok THEN Coerced(ParseFractional(str).v, <<>>)
                 ELSE IF ParseRfc3339(str).ok THEN Coerced(ParseRfc3339(str).v, <<>>)
                 ELSE IF ParseI64(str).ok /\ TimestampOpt(ParseI64(str).v).some
                      THEN Coerced(TimestampOpt(ParseI64(str).v).v, <<>>)
                 ELSE Coerced(now, <<UnknownFormat(str)>>)

deserialize_timestamp(j, now) ==
    LET s == OptionString(j)
    IN  IF ~s.ok THEN [ok |-> FALSE, e |-> s.e, warn |-> <<>>]
        ELSE IF ~s.v.some THEN Coerced(now, <<>>)
        ELSE LET str == s.v.v
             IN  IF ParsePlain(str).ok THEN Coerced(ParsePlain(str).v, <<>>)
                 ELSE IF ParseFractional(str).ok THEN Coerced(ParseFractional(str).v, <<>>)
                 ELSE IF ParseRfc3339(str).ok THEN Coerced(ParseRfc3339(str).v, <<>>)
                 ELSE IF ParseI64(str).ok
                      THEN LET t == TimestampOpt(ParseI64(str).v)
                           IN  Coerced(IF t.some THEN t.v ELSE now, <<>>)
                 ELSE Coerced(now, <<UnknownFormat(str)>>)

(***************************************************************************)
(* Formatting: Display of DateTime<Utc> and of the numbers, and chrono's   *)
(* serde form of an instant.                                               *)
(***************************************************************************)
RECURSIVE NatDigits(_)
\* The decimal digits of a natural number.
NatDigits(n) ==
    IF n < 10 THEN <<DigitChar(n)>> ELSE NatDigits(n \div 10) \o <<DigitChar(n % 10)>>

RECURSIVE Pad(_, _)
\* n in at least w digits, zero-padded.
Pad(n, w) ==
    IF w <= 1 THEN NatDigits(n)
    ELSE IF n < Pow10(w - 1) THEN <<"0">> \o Pad(n, w - 1)
    ELSE NatDigits(n)

\* The fraction of a second: none, or 3, 6 or 9 digits, the fewest that are exact.
FormatFraction(nanos) ==
    IF nanos = 0 THEN <<>>
    ELSE IF nanos % Pow10(6) = 0 THEN <<".">> \o Pad(nanos \div Pow10(6), 3)
    ELSE IF nanos % Pow10(3) = 0 THEN <<".">> \o Pad(nanos \div Pow10(3), 6)
    ELSE <<".">> \o Pad(nanos, 9)

\* A year of four digits, or signed when it needs more (or is negative).
FormatYear(y) ==
    IF y \in 0..9999 THEN Pad(y, 4)
    ELSE IF y < 0 THEN <<"-">> \o Pad(-y, 4)
    ELSE <<"+">> \o Pad(y, 4)

FormatDateTime(inst, sep) ==
    LET sod == inst.sod
        c == CivilFromDays(inst.days)
        leap == inst.nanos \div Pow10(9)
    IN  FormatYear(c.y) \o <<"-">> \o Pad(c.m, 2) \o <<"-">> \o Pad(c.d, 2) \o <<sep>>
          \o Pad(sod \div 3600, 2) \o <<":">> \o Pad((sod % 3600) \div 60, 2) \o <<":">>
          \o Pad((sod % 60) + leap, 2) \o FormatFraction(inst.nanos % Pow10(9))

\* "{}" of a DateTime<Utc>: "2023-04-15 14:32:56 UTC".
DisplayTime(inst) == FormatDateTime(inst, " ") \o <<" ", "U", "T", "C">>

\* chrono's Serialize of a DateTime<Utc>: "2023-04-15T14:32:56Z".
SerializeTime(inst) == FormatDateTime(inst, "T") \o <<"Z">>

\* "{:.1}" of an f64 of h hundredths: one decimal, a tie rounded to even.
FormatOneDecimal(h) ==
    LET a == IF h < 0 THEN -h ELSE h
        down == a \div 10
        rest == a % 10
        tenths == IF rest > 5 \/ (rest = 5 /\ down % 2 = 1) THEN down + 1 ELSE down
    IN  (IF h < 0 THEN <<"-">> ELSE <<>>) \o NatDigits(tenths \div 10) \o <<".">>
          \o <<DigitChar(tenths % 10)>>

(***************************************************************************)
(* RTL433Message and its derived Deserialize / Serialize.                  *)
(***************************************************************************)
\* A line of input: text that is no JSON, JSON that is no object, or an
\* object.  An object gives each known key a JSON value or Absent, may carry
\* one key the struct does not know (extra), and has its time key either
\* before the other keys or after them.
Garbage(text) == [kind |-> "garbage", text |-> text]

Scalar(j) == [kind |-> "scalar", j |-> j]

Object(f, extra, timeLast) ==
    [kind |-> "object", f |-> f, extra |-> extra, timeLast |-> timeLast]

NoFields ==
    [time |-> Absent, model |-> Absent, id |-> Absent, channel |-> Absent,
     temperature_C |-> Absent, humidity |-> Absent, battery_ok |-> Absent,
     test |-> Absent, mic |-> Absent]

\* One field: #[serde(default)] when the key is missing, its decoder otherwise.
Field(j, default, decoded) == IF j.t = "absent" THEN Ok(default) ELSE decoded

\* The fields other than time, each decoded by its own decoder.
OtherFields(f) ==
    [model |-> Field(f.model, <<>>, PlainString(f.model)),
     id |-> Field(f.id, None, OptionI64(f.id)),
     channel |-> Field(f.channel, None, OptionI64(f.channel)),
     temperature_c |-> Field(f.temperature_C, None, OptionF64(f.temperature_C)),
     humidity |-> Field(f.humidity, None, OptionI64(f.humidity)),
     battery_ok |-> Field(f.battery_ok, None, OptionF64(f.battery_ok)),
     test |-> Field(f.test, None, deserialize_yes_no(f.test)),
     mic |-> Field(f.mic, <<>>, PlainString(f.mic))]

\* The time field: #[serde(default, deserialize_with)], so a missing key is
\* DateTime::default() and the decoder never runs.
TimeField(j, now) ==
    IF j.t = "absent" THEN Coerced(UnixEpoch, <<>>) ELSE deserialize_timestamp(j, now)

\* serde_json::from_str::<RTL433Message>(line).  The keys are decoded in the
\* order of the text and the first failure ends the decoding, so the time
\* decoder (the only one that writes anything) runs unless a key before it
\* has failed.  The result carries what the time decoder wrote.
from_str(line, now) ==
    IF line.kind = "garbage" THEN [ok |-> FALSE, e |-> "syntax", warn |-> <<>>]
    ELSE IF line.kind = "scalar" THEN [ok |-> FALSE, e |-> "invalid type", warn |-> <<>>]
    ELSE LET o == OtherFields(line.f)
             othersOk == \A k \in DOMAIN o : o[k].ok
             t == TimeField(line.f.time, now)
         IN  IF line.timeLast /\ ~othersOk
             THEN [ok |-> FALSE, e |-> "invalid type", warn |-> <<>>]
             ELSE IF ~t.ok THEN [ok |-> FALSE, e |-> t.e, warn |-> <<>>]
             ELSE IF ~othersOk THEN [ok |-> FALSE, e |-> "invalid type", warn |-> t.warn]
             ELSE [ok |-> TRUE,
                   v |-> [time |-> t.v, model |-> o.model.v, id |-> o.id.v,
                          channel |-> o.channel.v,
                          temperature_c |-> o.temperature_c.v,
                          humidity |-> o.humidity.v, battery_ok |-> o.battery_ok.v,
                          test |-> o.test.v, mic |-> o.mic.v],
                   warn |-> t.warn]

OptionJson(opt, json(_)) == IF opt.some THEN json(opt.v) ELSE JNull

\* serde_json::to_string(&message): the derived Serialize writes every
\* field under its external name, an Option as its value or null.
to_string(m) ==
    Object([time |-> JStr(SerializeTime(m.time)),
            model |-> JStr(m.model),
            id |-> OptionJson(m.id, JInt),
            channel |-> OptionJson(m.channel, JInt),
            temperature_C |-> OptionJson(m.temperature_c, JFloat),
            humidity |-> OptionJson(m.humidity, JInt),
            battery_ok |-> OptionJson(m.battery_ok, JFloat),
            test |-> OptionJson(m.test, JBool),
            mic |-> JStr(m.mic)],
           Absent, FALSE)

(***************************************************************************)
(* The lines process_json_line prints.                                     *)
(***************************************************************************)
Header(m) == [kind |-> "header", model |-> m.model, time |-> DisplayTime(m.time)]

Temperature(h) == [kind |-> "temperature", text |-> FormatOneDecimal(h)]

Humidity(n) == [kind |-> "humidity", value |-> n]

IsTest(b) == [kind |-> "is_test", value |-> b]

Blank == [kind |-> "blank"]

\* A faulty variant: the humidity line printed for every message.
Report_always_humidity(m) ==
    <<Header(m)>>
      \o (IF m.temperature_c.some THEN <<Temperature(m.temperature_c.v)>> ELSE <<>>)
      \o <<Humidity(IF m.humidity.some THEN m.humidity.v ELSE 0)>>
      \o (IF m.test.some THEN <<IsTest(m.test.v)>> ELSE <<>>)
      \o <<Blank>>

\* The Ok arm of process_json_line.
Report(m) ==
    <<Header(m)>>
      \o (IF m.temperature_c.some THEN <<Temperature(m.temperature_c.v)>> ELSE <<>>)
      \o (IF m.humidity.some THEN <<Humidity(m.humidity.v)>> ELSE <<>>)
      \o (IF m.test.some THEN <<IsTest(m.test.v)>> ELSE <<>>)
      \o <<Blank>>

\* A faulty variant: the error reported without the line that caused it.
ParseFailure_without_line(e, line) == <<[kind |-> "parse_error", e |-> e]>>

\* The Err arm of process_json_line: the error, then the raw line.
ParseFailure(e, line) ==
    <<[kind |-> "parse_error", e |-> e], [kind |-> "raw_line", line |-> line]>>

(***************************************************************************)
(* The inputs.                                                             *)
(***************************************************************************)
PlainText == <<"2", "0", "2", "3", "-", "0", "4", "-", "1", "5", " ", "1", "4", ":", "3", "2", ":", "5", "6">>

FractionalText == <<"2", "0", "2", "3", "-", "0", "4", "-", "1", "5", " ", "1", "4", ":", "3", "2", ":", "5", "6", ".", "1", "2", "3">>

Rfc3339Text == <<"2", "0", "2", "3", "-", "0", "4", "-", "1", "5", "T", "1", "4", ":", "3", "2", ":", "5", "6", "Z">>

EpochText == <<"1", "6", "8", "1", "5", "6", "9", "1", "7", "6">>

\* Strings a "time" key may hold: the four formats, their near misses, and
\* integers at the edges of chrono's range and of i64.
TimeStrings ==
    { PlainText, FractionalText, Rfc3339Text, EpochText,
      <<"2", "0", "2", "3", "-", "0", "4", "-", "1", "5", "T", "1", "6", ":", "3", "2", ":", "5", "6", "+", "0", "2", ":", "0", "0">>, <<"2", "0", "2", "3", "-", "0", "4", "-", "1", "5", "t", "1", "4", ":", "3", "2", ":", "5", "6", ".", "5", "z">>,
      <<"2", "0", "2", "4", "-", "0", "2", "-", "2", "9", " ", "2", "3", ":", "5", "9", ":", "5", "9">>, <<"2", "0", "1", "6", "-", "1", "2", "-", "3", "1", " ", "2", "3", ":", "5", "9", ":", "6", "0">>,
      <<"0">>, <<"-", "1">>, <<"+", "8", "6", "4", "0", "0">>, <<"0", "0", "0", "1", "6", "8", "1", "5", "6", "9", "1", "7", "6">>,
      <<"8", "2", "1", "0", "2", "6", "6", "8", "7", "6", "7", "9", "9">>, <<"8", "2", "1", "0", "2", "9", "8", "4", "1", "2", "8", "0", "0">>, <<"-", "8", "3", "3", "4", "6", "0", "1", "2", "2", "8", "8", "0", "0">>, <<"-", "8", "3", "3", "4", "6", "3", "2", "8", "5", "1", "2", "0", "1">>,
      <<"9", "2", "2", "3", "3", "7", "2", "0", "3", "6", "8", "5", "4", "7", "7", "5", "8", "0", "7">>, <<"-", "9", "2", "2", "3", "3", "7", "2", "0", "3", "6", "8", "5", "4", "7", "7", "5", "8", "0", "8">>,
      <<"9", "2", "2", "3", "3", "7", "2", "0", "3", "6", "8", "5", "4", "7", "7", "5", "8", "0", "8">>, <<"-", "9", "2", "2", "3", "3", "7", "2", "0", "3", "6", "8", "5", "4", "7", "7", "5", "8", "0", "9">>,
      <<"n", "o", "t", "-", "a", "-", "d", "a", "t", "e">>, <<>>, <<"2", "0", "2", "3", "-", "0", "2", "-", "2", "9", " ", "1", "0", ":", "0", "0", ":", "0", "0">>, <<"2", "0", "2", "3", "-", "0", "4", "-", "1", "5", " ", "2", "4", ":", "0", "0", ":", "0", "0">>,
      <<"2", "0", "2", "3", "-", "0", "4", "-", "1", "5", " ", "1", "4", ":", "3", "2", ":", "5", "6", " ">>, <<"2", "0", "2", "3", "-", "0", "4", "-", "1", "5", " ", "1", "4", ":", "3", "2", ":", "5", "6", ".">>, <<"2", "0", "2", "3", "-", "0", "4", "-", "1", "5", "T", "1", "4", ":", "3", "2", ":", "5", "6">>,
      <<"2", "0", "2", "3", "-", "0", "4", "-", "1", "5", "T", "1", "4", ":", "3", "2", ":", "5", "6", "+", "2">>, <<"1", "6", "8", "1", "5", "6", "9", "1", "7", "6", ".", "5">>, <<"1", "2", "a">>, <<"-">> }

TimeValues ==
    {Absent, JNull, JInt(1681569176), JFloat(50), JBool(TRUE)}
      \cup {JStr(s) : s \in TimeStrings}

\* Strings a "test" key may hold: every letter case of each token, and
\* text that is no token.
TestStrings ==
    CaseVariants(<<"y", "e", "s">>) \cup CaseVariants(<<"n", "o">>) \cup CaseVariants(<<"t", "r", "u", "e">>)
      \cup CaseVariants(<<"f", "a", "l", "s", "e">>)
      \cup {<<"1">>, <<"0">>, <<"m", "a", "y", "b", "e">>, <<>>, <<"y">>, <<"1", "0">>, <<"y", "e", "s", " ">>}

TestValues ==
    {Absent, JNull, JBool(TRUE), JBool(FALSE), JInt(1), JInt(0)}
      \cup {JStr(s) : s \in TestStrings}

ModelText == <<"A", "c", "u", "r", "i", "t", "e", "-", "5", "n", "1">>

MicText == <<"C", "R", "C">>

\* A message with every field present and well-formed.
FullFields ==
    [time |-> JStr(PlainText), model |-> JStr(ModelText), id |-> JInt(7),
     channel |-> JInt(1), temperature_C |-> JFloat(2150), humidity |-> JInt(47),
     battery_ok |-> JInt(1), test |-> JStr(<<"N", "o">>), mic |-> JStr(MicText)]

\* One of the other fields given another value.
FieldVariations ==
    ({"model", "mic"} \X {Absent, JNull, JInt(5), JBool(TRUE), JStr(<<>>), JStr(MicText)})
      \cup ({"id", "channel", "humidity"}
              \X {Absent, JNull, JInt(0), JInt(47), JInt(-3), JFloat(4700), JFloat(4750),
                  JStr(<<"4", "7">>), JBool(TRUE)})
      \cup ({"temperature_C", "battery_ok"}
              \X {Absent, JNull, JInt(21), JInt(0), JFloat(2125), JFloat(2175),
                  JFloat(-25), JFloat(50), JStr(<<"2", "1", ".", "5">>), JBool(FALSE)})

Vary(f, kv) == [f EXCEPT ![kv[1]] = kv[2]]

\* The objects the normalizer is tried on: the time key varied, the test key
\* varied, one of the other keys varied, or two of these at once.
ObjectFields ==
    LET bases == {NoFields, FullFields}
    IN  { [b EXCEPT !.time = tv] : b \in bases, tv \in TimeValues }
          \cup { [b EXCEPT !.test = sv] : b \in bases, sv \in TestValues }
          \cup { Vary(b, kv) : b \in bases, kv \in FieldVariations }
          \cup { [Vary(b, kv) EXCEPT !.time = tv] :
                   b \in bases, kv \in FieldVariations,
                   tv \in {Absent, JNull, JInt(0), JStr(<<"n", "o", "t", "-", "a", "-", "d", "a", "t", "e">>), JStr(Rfc3339Text)} }
          \cup { [b EXCEPT !.time = tv, !.test = sv] :
                   b \in bases, tv \in {Absent, JNull, JStr(EpochText)},
                   sv \in {JStr(<<"Y", "e", "s">>), JStr(<<"y", "E", "s">>), JBool(TRUE), JStr(<<"F", "A", "L", "S", "E">>)} }

Lines ==
    { Object(f, extra, timeLast) :
        f \in ObjectFields, extra \in {Absent, JInt(-70)}, timeLast \in BOOLEAN }
      \cup {Garbage("{not json"), Garbage(""), Scalar(JInt(42)), Scalar(JNull)}

\* The lines the line source yields in a run of the whole program.
StreamLines ==
    { Garbage("{not json"),
      Object([NoFields EXCEPT !.model = JStr(ModelText), !.temperature_C = JFloat(2150),
                              !.humidity = JInt(47)], Absent, FALSE),
      Object([FullFields EXCEPT !.test = JStr(<<"Y", "e", "s">>)], JInt(-70), FALSE),
      Object([NoFields EXCEPT !.time = JStr(<<"n", "o", "t", "-", "a", "-", "d", "a", "t", "e">>), !.humidity = JStr(<<"4", "7">>)],
             Absent, FALSE),
      Object([NoFields EXCEPT !.time = JNull, !.test = JBool(TRUE)], Absent, TRUE) }

\* The lines of the runs whose end is followed: one that is no JSON and one
\* whose time and test are both unrecognised.
FewLines ==
    { Garbage("{not json"),
      Object([NoFields EXCEPT !.time = JStr(<<"n", "o", "t", "-", "a", "-", "d", "a", "t", "e">>),
                              !.test = JStr(<<"m", "a", "y", "b", "e">>)], Absent, FALSE) }

(***************************************************************************)
(* The program.                                                            *)
(***************************************************************************)
VARIABLES
    variant,    \* cfg!(feature = "execute_rtl433"): "process", else "stdin"
    pc,         \* where main is: main, spawn, lines (the loop's next()),
                \* line (a line in hand), returned, exit
    status,     \* "running", then what main returned: "ok" or "error"
    now,        \* the wall clock, in seconds since the epoch
    closed,     \* the line source has reached the end of its stream
    cur,        \* json_line: the line in hand
    output,     \* what was written, in order: [ch, src, l], ch the channel
                \* and src the number of the item of input that caused it
    input,      \* history: the items the line source has yielded
    attempts,   \* history: per item, the calls of process_json_line on it
    at,         \* history: per item, the clock when it was processed
    message,    \* history: the last result of serde_json::from_str
    again       \* the result of decoding that message serialized again

vars ==
    <<variant, pc, status, now, closed, cur, output, input, attempts, at, message, again>>

Written(ch, src, ls) == [i \in 1..Len(ls) |-> [ch |-> ch, src |-> src, l |-> ls[i]]]

Banner == [kind |-> "banner"]

ReadFailure == [kind |-> "read_error"]

\* A faulty variant: a parse failure returned to the caller instead of reported.
process_json_line_propagating(json_line, clock) ==
    CHOOSE done \in
        { IF r.ok
          THEN [err |-> r.warn, out |-> Report(r.v), errAfter |-> <<>>, ret |-> "Ok",
                message |-> r]
          ELSE [err |-> r.warn, out |-> <<>>, errAfter |-> <<>>, ret |-> "Err",
                message |-> r] :
          r \in {from_str(json_line, clock)} } : TRUE

\* process_json_line: what it writes to standard error while decoding, to
\* standard output, to standard error afterwards, and what it returns.  r is
\* the value of serde_json::from_str(json_line) that the match is on.
process_json_line(json_line, clock) ==
    CHOOSE done \in
        { IF r.ok
          THEN [err |-> r.warn, out |-> Report(r.v), errAfter |-> <<>>, ret |-> "Ok",
                message |-> r]
          ELSE [err |-> r.warn, out |-> <<>>, errAfter |-> ParseFailure(r.e, json_line),
                ret |-> "Ok", message |-> r] :
          r \in {from_str(json_line, clock)} } : TRUE

Init ==
    /\ variant \in {"stdin", "process"}
    /\ pc = "main"
    /\ status = "running"
    /\ now = StartClock
    /\ closed = FALSE
    /\ cur = None
    /\ output = <<>>
    /\ input = <<>>
    /\ attempts = <<>>
    /\ at = <<>>
    /\ message = None
    /\ again = None

\* main: the banner, then the variant the build selected.
Start ==
    /\ pc = "main"
    /\ output' = output \o Written("stdout", 0, <<Banner>>)
    /\ pc' = IF variant = "process" THEN "spawn" ELSE "lines"
    /\ UNCHANGED <<variant, status, now, closed, cur, input, attempts, at, message, again>>

\* Command::spawn()?: a failure is returned from main.
Spawn ==
    /\ pc = "spawn"
    /\ \/ /\ pc' = "lines"
          /\ status' = status
       \/ /\ pc' = "exit"
          /\ status' = "error"
    /\ UNCHANGED <<variant, now, closed, cur, output, input, attempts, at, message, again>>

\* reader.lines() yields Ok(json_line), a line of the set from.
ReadFrom(from) ==
    /\ pc = "lines"
    /\ ~closed
    /\ Len(input) < MaxLines
    /\ \E line \in from :
          /\ cur' = Some(line)
          /\ input' = Append(input, [kind |-> "line", line |-> line])
    /\ attempts' = Append(attempts, 0)
    /\ at' = Append(at, 0)
    /\ pc' = "line"
    /\ UNCHANGED <<variant, status, now, closed, output, message, again>>

ReadLine == ReadFrom(StreamLines)

ReadLineOfFew == ReadFrom(FewLines)

\* reader.lines() yields Err(e): reported, and the loop goes on.
ReadError ==
    /\ pc = "lines"
    /\ ~closed
    /\ Len(input) < MaxLines
    /\ input' = Append(input, [kind |-> "io_error"])
    /\ attempts' = Append(attempts, 0)
    /\ at' = Append(at, now)
    /\ output' = output \o Written("stderr", Len(input) + 1, <<ReadFailure>>)
    /\ pc' = "lines"
    /\ UNCHANGED <<variant, status, now, closed, cur, message, again>>

\* The stream ends (end of input, or the subprocess closes its output).
Close ==
    /\ pc \in {"lines", "line"}
    /\ ~closed
    /\ closed' = TRUE
    /\ UNCHANGED <<variant, pc, status, now, cur, output, input, attempts, at, message, again>>

\* reader.lines() yields None: the loop ends and the function returns Ok(()).
ReadEnd ==
    /\ pc = "lines"
    /\ closed
    /\ pc' = "returned"
    /\ UNCHANGED <<variant, status, now, closed, cur, output, input, attempts, at, message, again>>

\* A faulty variant: the next line taken while one is in hand, which is dropped.
ProcessLine_skipping ==
    /\ pc = "line"
    /\ cur' = None
    /\ pc' = "lines"
    /\ UNCHANGED <<variant, status, now, closed, output, input, attempts, at, message, again>>

\* process_json_line(&json_line)?
ProcessLine ==
    /\ pc = "line"
    /\ \E r \in {process_json_line(cur.v, FromSecs(now))} :
       LET i == Len(input)
       IN  /\ output' = output \o Written("stderr", i, r.err)
                           \o Written("stdout", i, r.out)
                           \o Written("stderr", i, r.errAfter)
           /\ attempts' = [attempts EXCEPT ![i] = @ + 1]
           /\ at' = [at EXCEPT ![i] = now]
           /\ message' = Some(r.message)
           /\ pc' = IF r.ret = "Ok" THEN "lines" ELSE "exit"
           /\ status' = IF r.ret = "Ok" THEN status ELSE "error"
    /\ cur' = None
    /\ again' = None
    /\ UNCHANGED <<variant, now, closed, input>>

\* main returns Ok(()).
Return ==
    /\ pc = "returned"
    /\ pc' = "exit"
    /\ status' = "ok"
    /\ UNCHANGED <<variant, now, closed, cur, output, input, attempts, at, message, again>>

\* The wall clock advances.
Tick ==
    /\ pc # "exit"
    /\ now < StartClock + MaxTicks
    /\ now' = now + 1
    /\ UNCHANGED <<variant, pc, status, closed, cur, output, input, attempts, at, message, again>>

\* What the program itself does, as opposed to its environment.
Step == Start \/ Spawn \/ ReadEnd \/ ProcessLine \/ Return

Next == Start \/ Spawn \/ ReadLine \/ ReadError \/ Close \/ ReadEnd \/ ProcessLine \/ Return \/ Tick

Spec == Init /\ [][Next]_vars

\* The whole program on the lines of FewLines, under the fairness its
\* execution has: a running program keeps taking its steps.  (The line
\* source and the clock are the environment and owe nothing.)
NextOfFew ==
    Start \/ Spawn \/ ReadLineOfFew \/ ReadError \/ Close \/ ReadEnd \/ ProcessLine \/ Return
      \/ Tick

FairSpec == Init /\ [][NextOfFew]_vars /\ WF_vars(Step)

(***************************************************************************)
(* The normalizer on one line: the state in which the line source has      *)
(* yielded its first line, for every line of Lines, then process_json_line *)
(* on it, then the message serialized and decoded again.                   *)
(***************************************************************************)
InitLine ==
    /\ variant \in {"stdin", "process"}
    /\ pc = "line"
    /\ status = "running"
    /\ now = StartClock
    /\ closed = FALSE
    /\ \E line \in Lines :
          /\ cur = Some(line)
          /\ input = <<[kind |-> "line", line |-> line]>>
    /\ output = Written("stdout", 0, <<Banner>>)
    /\ attempts = <<0>>
    /\ at = <<0>>
    /\ message = None
    /\ again = None

\* serde_json::to_string of the message, and from_str of that.
RoundTrip ==
    /\ pc = "lines"
    /\ message.some
    /\ message.v.ok
    /\ ~again.some
    /\ again' = Some(from_str(to_string(message.v.v), FromSecs(now)))
    /\ UNCHANGED <<variant, pc, status, now, closed, cur, output, input, attempts, at, message>>

NextLine == ProcessLine \/ RoundTrip \/ Tick

SpecLine == InitLine /\ [][NextLine]_vars

(***************************************************************************)
(* What the claims speak of.                                               *)
(***************************************************************************)
\* The JSON types each field's Rust type decodes (Option<_>: also null;
\* f64: any number), and a missing key, which #[serde(default)] allows.
AcceptedTypes ==
    [time |-> {"absent", "null", "str"},
     model |-> {"absent", "str"},
     id |-> {"absent", "null", "int"},
     channel |-> {"absent", "null", "int"},
     temperature_C |-> {"absent", "null", "int", "float"},
     humidity |-> {"absent", "null", "int"},
     battery_ok |-> {"absent", "null", "int", "float"},
     test |-> {"absent", "null", "str"},
     mic |-> {"absent", "str"}]

WellTyped(f, keys) == \A k \in keys : f[k].t \in AcceptedTypes[k]

OtherKeys == DOMAIN NoFields \ {"time"}

\* A line that does not decode as a Record.
Malformed(line) == line.kind # "object" \/ ~WellTyped(line.f, DOMAIN NoFields)

OutputOf(i) == SelectSeq(output, LAMBDA e : e.src = i)

On(ch, seq) == SelectSeq(seq, LAMBDA e : e.ch = ch)

OfKind(kind, seq) == SelectSeq(seq, LAMBDA e : e.l.kind = kind)

Kinds(seq) == [k \in 1..Len(seq) |-> seq[k].l.kind]

Texts(seq) == [k \in 1..Len(seq) |-> seq[k].l]

Last == Len(input)

\* process_json_line has run on the last item read, a line; message is
\* what from_str made of it.
LastHandled == input # <<>> /\ input[Last].kind = "line" /\ attempts[Last] = 1

LastLine == input[Last].line

LastObject == LastHandled /\ LastLine.kind = "object"

\* The clock when the last line was processed, as an instant.
ClockThen == FromSecs(at[Last])

\* The items that are lines and have been processed.
LinesDone == {i \in 1..Len(input) : input[i].kind = "line" /\ attempts[i] > 0}

(***************************************************************************)
(* C1: a line without a "time" key gets the wall-clock time of its parsing *)
(* as its time, and its header shows that time.                            *)
(***************************************************************************)
C1_MissingTimeIsTheCurrentTime ==
    (LastObject /\ LastLine.f.time = Absent /\ message.v.ok)
        => /\ message.v.v.time = ClockThen
           /\ On("stdout", OutputOf(Last))[1].l.time = DisplayTime(ClockThen)

(***************************************************************************)
(* C2, as claimed: whatever the JSON type of an optional field (id,        *)
(* channel, temperature_C, humidity, battery_ok, test, model, mic), an     *)
(* object line yields a Record.                                            *)
(***************************************************************************)
C2_MalformedFieldNeverAborts ==
    (LastObject /\ WellTyped(LastLine.f, {"time"})) => message.v.ok

(***************************************************************************)
(* C2, amended: an object line yields a Record exactly when every key it   *)
(* has holds a JSON type its field decodes.  A key that is missing or null *)
(* (missing, for model and mic), and a test string that is no token, leave *)
(* the field absent (model and mic: empty) and never abort the decoding;   *)
(* a well-typed value is kept.                                             *)
(***************************************************************************)
C2_OnlyMissingNullOrTypedFieldsDecode ==
    LastObject =>
        LET f == LastLine.f
            m == message.v.v
            names == [id |-> "id", channel |-> "channel",
                      temperature_c |-> "temperature_C", humidity |-> "humidity",
                      battery_ok |-> "battery_ok", test |-> "test"]
        IN  /\ message.v.ok <=> WellTyped(f, DOMAIN NoFields)
            /\ message.v.ok =>
                  /\ \A k \in DOMAIN names :
                        f[names[k]].t \in {"absent", "null"} => ~m[k].some
                  /\ \A k \in {"id", "channel", "humidity"} :
                        f[k].t = "int" => m[k] = Some(f[k].n)
                  /\ \A k \in {"temperature_c", "battery_ok"} :
                        /\ f[names[k]].t = "float" => m[k] = Some(f[names[k]].h)
                        /\ f[names[k]].t = "int" => m[k] = Some(100 * f[names[k]].n)
                  /\ \A k \in {"model", "mic"} :
                        m[k] = IF f[k].t = "absent" THEN <<>> ELSE f[k].s
                  /\ (f.test.t = "str" /\ f.test.s = <<"m", "a", "y", "b", "e">>) => ~m.test.some

C2_Witness ==
    /\ LastObject
    /\ message.v.ok
    /\ LastLine.f.test = JStr(<<"m", "a", "y", "b", "e">>)
    /\ LastLine.f.humidity = Absent
    /\ ~message.v.v.test.some
    /\ ~message.v.v.humidity.some
    /\ message.v.v.model = <<>>

(***************************************************************************)
(* C3, as claimed: the test field is matched ignoring letter case: any     *)
(* casing of yes, true or 1 is true, any casing of no, false or 0 is       *)
(* false, everything else (and a missing field) is absent.                 *)
(***************************************************************************)
C3_YesNoIgnoresCase ==
    (LastObject /\ message.v.ok) =>
        LET j == LastLine.f.test
        IN  message.v.v.test =
              IF j.t = "str" /\ ToLower(j.s) \in {<<"y", "e", "s">>, <<"t", "r", "u", "e">>, <<"1">>} THEN Some(TRUE)
              ELSE IF j.t = "str" /\ ToLower(j.s) \in {<<"n", "o">>, <<"f", "a", "l", "s", "e">>, <<"0">>} THEN Some(FALSE)
              ELSE None

\* The spellings the claim's sources list.
TrueSpellings == {<<"Y", "e", "s">>, <<"y", "e", "s">>, <<"Y", "E", "S">>, <<"t", "r", "u", "e">>, <<"T", "R", "U", "E">>, <<"T", "r", "u", "e">>, <<"1">>}

FalseSpellings == {<<"N", "o">>, <<"n", "o">>, <<"N", "O">>, <<"f", "a", "l", "s", "e">>, <<"F", "A", "L", "S", "E">>, <<"F", "a", "l", "s", "e">>, <<"0">>}

(***************************************************************************)
(* C3, amended: the test field is true exactly for the seven spellings     *)
(* Yes, yes, YES, true, TRUE, True and 1, false exactly for No, no, NO,    *)
(* false, FALSE, False and 0, and absent for every other string, among     *)
(* them every other casing (yEs, tRUE), and for a missing field.           *)
(***************************************************************************)
C3_YesNoMatchesListedSpellings ==
    (LastObject /\ message.v.ok) =>
        LET j == LastLine.f.test
        IN  message.v.v.test =
              IF j.t = "str" /\ j.s \in TrueSpellings THEN Some(TRUE)
              ELSE IF j.t = "str" /\ j.s \in FalseSpellings THEN Some(FALSE)
              ELSE None

C3_Witness ==
    /\ LastObject
    /\ message.v.ok
    /\ LastLine.f.test = JStr(<<"y", "E", "s">>)
    /\ message.v.v.test = None

(***************************************************************************)
(* The time string against the four interpretations.                       *)
(***************************************************************************)
\* One of the four parsers accepts the text.
Recognised(s) ==
    ParsePlain(s).ok \/ ParseFractional(s).ok \/ ParseRfc3339(s).ok \/ ParseI64(s).ok

\* The instant the first interpretation that has one yields, if any has.
InstantOf(s) ==
    IF ParsePlain(s).ok THEN Some(ParsePlain(s).v)
    ELSE IF ParseFractional(s).ok THEN Some(ParseFractional(s).v)
    ELSE IF ParseRfc3339(s).ok THEN Some(ParseRfc3339(s).v)
    ELSE IF ParseI64(s).ok THEN TimestampOpt(ParseI64(s).v)
    ELSE None

\* The time decoder has run on the last line: no key before the time key
\* had already failed.
TimeDecoderRan == ~(LastLine.timeLast /\ ~WellTyped(LastLine.f, OtherKeys))

Warnings == OfKind("unknown_timestamp", OutputOf(Last))

(***************************************************************************)
(* C5, as claimed: a time string falls back to the current time only if    *)
(* none of the four interpretations yields an instant, and every such      *)
(* fallback (an integer outside the timestamp range included) first emits  *)
(* a warning naming the string; there is no warning when an interpretation *)
(* succeeds or the field is absent.                                        *)
(***************************************************************************)
C5_EveryFallbackWarns ==
    (LastObject /\ message.v.ok) =>
        LET j == LastLine.f.time
        IN  IF j.t = "str"
            THEN IF InstantOf(j.s).some
                 THEN message.v.v.time = InstantOf(j.s).v /\ Warnings = <<>>
                 ELSE /\ message.v.v.time = ClockThen
                      /\ Texts(Warnings) = <<UnknownFormat(j.s)>>
                      /\ OutputOf(Last)[1].l = UnknownFormat(j.s)
            ELSE Warnings = <<>>

(***************************************************************************)
(* C5, amended: a time string falls back to the current time only if none  *)
(* of the four interpretations yields an instant.  The warning naming the  *)
(* string is emitted, before anything else the line causes, exactly when   *)
(* none of the four parsers accepts the text; an integer string that       *)
(* parses as i64 but lies outside the timestamp range falls back to the    *)
(* current time without a warning.  There is no warning when the field is  *)
(* absent or null, nor when a key before it has already failed.            *)
(***************************************************************************)
C5_WarningOnlyForUnrecognisedText ==
    LastObject =>
        LET j == LastLine.f.time
        IN  IF j.t = "str" /\ TimeDecoderRan
            THEN /\ message.v.ok =>
                      message.v.v.time =
                        IF InstantOf(j.s).some THEN InstantOf(j.s).v ELSE ClockThen
                 /\ Texts(Warnings) =
                      IF Recognised(j.s) THEN <<>> ELSE <<UnknownFormat(j.s)>>
                 /\ ~Recognised(j.s) => OutputOf(Last)[1].l = UnknownFormat(j.s)
            ELSE Warnings = <<>>

C5_Witness ==
    /\ LastObject
    /\ message.v.ok
    /\ LastLine.f.time = JStr(<<"9", "2", "2", "3", "3", "7", "2", "0", "3", "6", "8", "5", "4", "7", "7", "5", "8", "0", "7">>)
    /\ message.v.v.time = ClockThen
    /\ Warnings = <<>>

C8_RoundTrip == again.some => (again.v.ok /\ again.v.v = message.v.v)

(***************************************************************************)
(* C10: a "time" that is JSON null gives a Record with the current time    *)
(* and no warning; a "time" of any other type than string (a number, a     *)
(* boolean) gives no Record: the parse error and the raw line are logged,  *)
(* nothing is written to standard output, and the loop goes on.            *)
(***************************************************************************)
C10_TimeOfAnotherJsonType ==
    LastObject =>
        LET j == LastLine.f.time
        IN  /\ (j.t = "null" /\ WellTyped(LastLine.f, OtherKeys)) =>
                  /\ message.v.ok
                  /\ message.v.v.time = ClockThen
                  /\ Warnings = <<>>
                  /\ On("stdout", OutputOf(Last))[1].l.time = DisplayTime(ClockThen)
            /\ j.t \in {"int", "float", "bool"} =>
                  /\ ~message.v.ok
                  /\ On("stdout", OutputOf(Last)) = <<>>
                  /\ Kinds(OutputOf(Last)) = <<"parse_error", "raw_line">>
                  /\ OutputOf(Last)[2].l.line = LastLine
                  /\ pc = "lines"
                  /\ status = "running"

C10_Witness ==
    /\ LastObject
    /\ LastLine.f.time = JInt(1681569176)
    /\ ~message.v.ok
    /\ Kinds(OutputOf(Last)) = <<"parse_error", "raw_line">>

(***************************************************************************)
(* C4: of the N lines read and processed, of which M do not decode, there  *)
(* are N - M report blocks on standard output and M parse-error reports,   *)
(* each with the raw line, on standard error; a line that does not decode  *)
(* writes nothing to standard output; everything written is in the order   *)
(* of the lines that caused it.                                            *)
(***************************************************************************)
C4_BlocksAndErrorsInInputOrder ==
    LET bad == {i \in LinesDone : Malformed(input[i].line)}
        good == LinesDone \ bad
        out == On("stdout", output)
        err == On("stderr", output)
    IN  /\ Len(OfKind("header", out)) = Cardinality(LinesDone) - Cardinality(bad)
        /\ Len(OfKind("blank", out)) = Cardinality(LinesDone) - Cardinality(bad)
        /\ Len(OfKind("parse_error", err)) = Cardinality(bad)
        /\ Len(OfKind("raw_line", err)) = Cardinality(bad)
        /\ OfKind("parse_error", out) = <<>> /\ OfKind("header", err) = <<>>
        /\ \A i \in bad :
              LET own == OutputOf(i)
              IN  /\ On("stdout", own) = <<>>
                  /\ Len(own) >= 2
                  /\ own[Len(own) - 1].l.kind = "parse_error"
                  /\ own[Len(own)].l = [kind |-> "raw_line", line |-> input[i].line]
                  /\ Len(OfKind("parse_error", own)) = 1
        /\ \A i \in good :
              LET block == On("stdout", OutputOf(i))
              IN  /\ block # <<>>
                  /\ block[1].l.kind = "header"
                  /\ block[Len(block)].l.kind = "blank"
                  /\ Len(OfKind("header", block)) = 1
                  /\ Len(OfKind("blank", block)) = 1
                  /\ OfKind("parse_error", OutputOf(i)) = <<>>
        /\ \A j, k \in 1..Len(output) : j < k => output[j].src <= output[k].src
        /\ \A k \in 1..Len(output) :
              output[k].src = 0 \/ output[k].src \in LinesDone
                \/ (input[output[k].src].kind = "io_error"
                      /\ output[k].l.kind = "read_error")

C4_Witness ==
    /\ pc = "exit"
    /\ status = "ok"
    /\ Len(input) = 3
    /\ LinesDone = {1, 2, 3}
    /\ Malformed(input[2].line)
    /\ ~Malformed(input[1].line)
    /\ ~Malformed(input[3].line)
    /\ Len(OfKind("blank", On("stdout", output))) = 2
    /\ Len(OfKind("raw_line", On("stderr", output))) = 1

(***************************************************************************)
(* C9: the pipeline takes one line at a time: when a line is read, every   *)
(* earlier line has been processed exactly once and its output is written; *)
(* no line is processed twice or passed over; and what a line causes to be *)
(* written is determined by that line (and the clock at its processing)    *)
(* alone.                                                                  *)
(***************************************************************************)
C9_OneLineAtATime ==
    /\ \A i \in 1..Len(input) :
          input[i].kind = "line" =>
              attempts[i] = IF i = Len(input) /\ pc = "line" THEN 0 ELSE 1
    /\ pc = "line" =>
          /\ cur = Some(input[Last].line)
          /\ OutputOf(Last) = <<>>
    /\ \A i \in LinesDone :
          LET r == process_json_line(input[i].line, FromSecs(at[i]))
          IN  /\ OutputOf(i) = Written("stderr", i, r.err) \o Written("stdout", i, r.out)
                                 \o Written("stderr", i, r.errAfter)
              /\ OutputOf(i) # <<>>
    /\ \A j, k \in 1..Len(output) : j < k => output[j].src <= output[k].src
    /\ \A k \in 1..Len(output) : output[k].src <= Len(input)

C9_Witness ==
    /\ Len(input) = 3
    /\ pc = "line"
    /\ input[1].kind = "line"
    /\ input[2].kind = "line"
    /\ input[1].line # input[2].line
    /\ attempts = <<1, 1, 0>>
    /\ OutputOf(1) # <<>>
    /\ OutputOf(2) # <<>>

(***************************************************************************)
(* C6: main ends with an error only when the subprocess of the process     *)
(* variant fails to spawn.  Read errors, lines that do not decode and      *)
(* unrecognised field encodings leave the loop iterating: per-line         *)
(* processing never returns an error, and once the stream has closed the   *)
(* program ends with a success status.                                     *)
(***************************************************************************)
C6_OnlySpawnFailureIsFatal ==
    /\ [][status' = "error" => (status = "error" \/ (pc = "spawn" /\ variant = "process"))]_vars
    /\ [][pc = "line" => (pc' = "line" \/ (pc' = "lines" /\ status' = "running"))]_vars
    /\ [][(pc = "lines" /\ ~closed) => pc' \in {"lines", "line"}]_vars
    /\ [](pc = "exit" => (status = "ok" \/ (status = "error" /\ input = <<>>)))
    /\ (closed ~> (pc = "exit" /\ status = "ok"))

C6_Witness ==
    /\ pc = "exit"
    /\ status = "ok"
    /\ variant = "process"
    /\ \E i \in 1..Len(input) : input[i].kind = "io_error"
    /\ OfKind("parse_error", output) # <<>>
    /\ OfKind("unknown_timestamp", output) # <<>>
    /\ OfKind("read_error", output) # <<>>

=============================================================================
